---- MODULE Spec2Model ----
(***************************************************************************)
(* A model of assignment_1: the bounded BlockingQueue (blocking_queue.py)  *)
(* built on one threading.Lock shared by two threading.Condition objects,  *)
(* and the Producer / Consumer / run_pipeline layer (producer_consumer.py).*)
(*                                                                         *)
(* Several families of behaviours share the queue actions:                 *)
(*   Spec      client threads call put / get, timed or untimed, freely;    *)
(*   TimedSpec the same with timeouts long enough for the clock to move    *)
(*             between a call's entry and its deadline;                    *)
(*   ReadSpec  threads calling size / capacity / is_empty / is_full        *)
(*             beside threads that put and get;                            *)
(*   NewSpec   ReadSpec from the constructor call on, any max_size;        *)
(*   PipeSpec  run_pipeline: one Producer thread, one Consumer thread.     *)
(* FairSpec, FairReadSpec, FairNewSpec and FairPipeSpec add the fairness   *)
(* of a preemptive scheduler.                                              *)
(***************************************************************************)
EXTENDS Integers, Sequences, FiniteSets, TLC

\* ------------------------------------------------------------------ bounds
MaxCap   == 2   \* max_size ranges over 1..MaxCap
MaxCalls == 4   \* put/get calls issued by the client threads of Spec
MaxSrc   == 3   \* length of the source handed to run_pipeline
MinSize  == -1  \* smallest max_size handed to the constructor in NewSpec

\* --------------------------------------------------------------- constants
None     == -1              \* Python's None (no timeout, a None payload)
SENTINEL == 0               \* the unique object() of producer_consumer.py
NoThread == 0               \* the lock is free
NoAttr   == -2              \* an attribute __post_init__ has not assigned
PRODUCER == 1               \* the Producer thread of run_pipeline
CONSUMER == 2               \* the Consumer thread of run_pipeline

Threads     == {1, 2, 3}                   \* client threads of Spec
PipeThreads == {PRODUCER, CONSUMER}         \* threads of run_pipeline
Timeouts    == {None, 0, 1}                \* timeout arguments tried
Values      == {1, None, SENTINEL}         \* what a source may yield

VARIABLES
    max_size,      \* BlockingQueue.max_size
    queue,         \* BlockingQueue._queue (deque, left end first)
    lock,          \* owner of BlockingQueue._lock, or NoThread
    not_empty,     \* _not_empty._waiters: threads in wait(), oldest first
    not_full,      \* _not_full._waiters
    now,           \* time.monotonic()
    pc,            \* per thread: position inside put / get ("idle" outside)
    item,          \* per thread: the item argument of the running put
    timeout,       \* per thread: the timeout argument of the running call
    end_time,      \* per thread: local end_time (None when untimed)
    remaining,     \* per thread: local remaining, as last computed
    wait_until,    \* per thread: when the running timed wait() gives up
    got,           \* per thread: the local the caller binds get()'s value to
    ret,           \* per thread: the value the running size / capacity /
                   \* is_empty / is_full call is about to return
    tpc,           \* per thread: position in the caller's code
    role,          \* per client thread: which calls it issues
    calls,         \* number of calls issued by client threads
    source,        \* run_pipeline: the source, as the list of its items
    raiseAt,       \* run_pipeline: the source raises after this many items
    pos,           \* Producer.run: items taken from the source so far
    raised,        \* Producer.run ended with the source's exception
    destination,   \* Consumer.destination
    mpc,           \* position of the thread that builds the queue
                   \* (run_pipeline's caller, the caller of the constructor)
    result,        \* run_pipeline: the returned list
    putLog,        \* history: items appended, in append order
    getLog,        \* history: values returned by get, in removal order
    blockedAt,     \* history, per thread: opposite operations completed
                   \* when the running call first waited (None: no wait yet)
    ahead,         \* history: pairs <<s, x>>, s was stored when put(x)
                   \* first waited
    failed,        \* history: items whose put raised TimeoutError
    getTimeouts,   \* history: number of get calls that raised TimeoutError
    errors         \* history: other exceptions raised inside put and get

queueVars == <<max_size, queue, lock, not_empty, not_full>>
callVars  == <<pc, item, timeout, end_time, remaining, wait_until, got,
               ret>>
pipeVars  == <<source, raiseAt, pos, raised, destination, mpc, result>>
histVars  == <<putLog, getLog, blockedAt, ahead, failed, getTimeouts,
               errors>>
vars == <<queueVars, callVars, pipeVars, histVars, now, tpc, role, calls>>

\* ------------------------------------------------------- condition objects
\* notify_all() in place of notify(): every entry of _waiters is released
Notify_all(p, w, waiting, woken) ==
    <<[t \in DOMAIN p |->
          IF p[t] = waiting /\ (\E i \in 1..Len(w) : w[i] = t)
          THEN woken ELSE p[t]],
      <<>>>>

\* threading.Condition.notify(n=1) on a condition with waiters w: the oldest
\* entry of _waiters is released and removed. A thread whose timed wait has
\* already expired is still in _waiters until it re-acquires the lock, and
\* takes the notification. The result is <<pc, waiters>> after the call.
Notify(p, w, waiting, woken) ==
    IF w = <<>> THEN <<p, w>>
    ELSE <<IF p[Head(w)] = waiting THEN [p EXCEPT ![Head(w)] = woken] ELSE p,
           Tail(w)>>

\* Condition.wait() returning: _waiters.remove(waiter) when not notified
RemoveWaiter(w, t) == SelectSeq(w, LAMBDA u : u # t)

\* lock.acquire() / lock.release() written out without try/finally: an
\* exception leaves the lock held
WithExit_noFinally(t, raising) == IF raising THEN t ELSE NoThread

\* the end of a `with` block: the lock is released, on return and on an
\* exception alike
WithExit(t, raising) == NoThread

\* ---------------------------------------------------------- BlockingQueue
\* len(self._queue) >= self.max_size
IsFull == Len(queue) >= max_size

\* len(self._queue) == 0
IsEmpty == Len(queue) = 0

\* an `if` in place of the `while` of line 34: fullness is tested on entry
\* only, a thread returning from wait() goes on to append
PutMustWait_once(t) == IsFull /\ blockedAt[t] = None

\* the while test of line 34, evaluated on entry and after every wait()
PutMustWait(t) == IsFull

\* the deadline tested before the queue: an expired timed get goes to the
\* raise even when an item is stored
GetMustWait_deadlineFirst(t) ==
    IsEmpty \/ (timeout[t] # None /\ end_time[t] - now <= 0)

\* the while test of line 51, evaluated on entry and after every wait()
GetMustWait(t) == IsEmpty

\* deque.appendleft() in place of append(): the item enters at the head
appendleft(q, x) == <<x>> \o q

\* self._queue.append(item)
append(q, x) == Append(q, x)

\* deque.pop() in place of popleft(): the newest item is removed
pop(q) ==
    IF q = <<>> THEN <<None, q>> ELSE <<q[Len(q)], SubSeq(q, 1, Len(q) - 1)>>

\* self._queue.popleft(): <<the item removed, the remaining deque>>; on an
\* empty deque it raises IndexError and nothing is returned or removed
popleft(q) == IF q = <<>> THEN <<None, q>> ELSE <<Head(q), Tail(q)>>

\* end_time = time.monotonic() + timeout, when a timeout was given
Deadline(to) == IF to = None THEN None ELSE now + to

\* the timeout argument in place of the time left: remaining = timeout
Remaining_full(t) == timeout[t]

\* lines 38 and 55: remaining = end_time - time.monotonic()
Remaining(t) == end_time[t] - now

\* lines 39 and 56: remaining <= 0
Expired(t) == Remaining(t) <= 0

\* wait(timeout=remaining) called now gives up at now + remaining; the
\* untimed wait() never does
WaitUntil(t) == IF timeout[t] = None THEN None ELSE now + Remaining(t)

\* the local remaining after lines 35-38 (not computed when untimed)
NewRemaining(t) == IF timeout[t] = None THEN None ELSE Remaining(t)

\* what the caller keeps of get()'s value: Consumer.run binds it to its
\* local `item` (line 41), a client thread of Spec drops it
Bind(t, v) == IF tpc[t] = "client" THEN None ELSE v

\* line 44 left out: put wakes nobody
NotifyNotEmpty_missing == <<pc, not_empty>>

\* line 44: self._not_empty.notify()
NotifyNotEmpty == Notify(pc, not_empty, "get_wait", "get_woken")

\* line 60 left out: get wakes nobody
NotifyNotFull_missing == <<pc, not_full>>

\* line 60: self._not_full.notify()
NotifyNotFull == Notify(pc, not_full, "put_wait", "put_woken")

\* the frame of a call that has returned or raised
Returned(f, t) == [f EXCEPT ![t] = None]

\* put(x, timeout=to) is called by an idle thread: `with self._not_full:`
\* acquires the lock, lines 31-32 fix end_time (a thread still waiting for
\* the lock has done nothing another thread can see)
PutEnter(t, x, to) ==
    /\ pc[t] = "idle"
    /\ lock = NoThread
    /\ lock' = t
    /\ item' = [item EXCEPT ![t] = x]
    /\ timeout' = [timeout EXCEPT ![t] = to]
    /\ end_time' = [end_time EXCEPT ![t] = Deadline(to)]
    /\ pc' = [pc EXCEPT ![t] = "put_check"]
    /\ UNCHANGED <<histVars, max_size, queue, not_empty, not_full, now, got,
                   ret, remaining, wait_until>>

\* get(timeout=to) is called by an idle thread: `with self._not_empty:`
\* acquires the lock, lines 48-49 fix end_time
GetEnter(t, to) ==
    /\ pc[t] = "idle"
    /\ lock = NoThread
    /\ lock' = t
    /\ timeout' = [timeout EXCEPT ![t] = to]
    /\ end_time' = [end_time EXCEPT ![t] = Deadline(to)]
    /\ pc' = [pc EXCEPT ![t] = "get_check"]
    /\ UNCHANGED <<histVars, max_size, queue, not_empty, not_full, now, item,
                   got, ret, remaining, wait_until>>

\* lines 34-36 and 41: the queue is full and the deadline is not reached;
\* wait() enters _waiters and releases the lock
PutWait(t) ==
    /\ pc[t] = "put_check"
    /\ lock = t
    /\ PutMustWait(t)
    /\ timeout[t] = None \/ ~Expired(t)
    /\ not_full' = Append(not_full, t)
    /\ lock' = NoThread
    /\ pc' = [pc EXCEPT ![t] = "put_wait"]
    /\ blockedAt' = [blockedAt EXCEPT ![t] =
                        IF @ = None THEN Len(getLog) ELSE @]
    /\ ahead' = IF blockedAt[t] = None
                THEN ahead \cup {<<queue[i], item[t]>> : i \in 1..Len(queue)}
                ELSE ahead
    /\ remaining' = [remaining EXCEPT ![t] = NewRemaining(t)]
    /\ wait_until' = [wait_until EXCEPT ![t] = WaitUntil(t)]
    /\ UNCHANGED <<pipeVars, max_size, queue, not_empty, now, item, timeout,
                   end_time, got, tpc, role, calls, putLog, getLog, failed,
                   getTimeouts, errors, ret>>

\* lines 38-40: the queue is full and remaining <= 0; the exception leaves
\* the with block, which releases the lock
PutTimeout(t) ==
    /\ pc[t] = "put_check"
    /\ lock = t
    /\ PutMustWait(t)
    /\ timeout[t] # None
    /\ Expired(t)
    /\ lock' = WithExit(t, TRUE)
    /\ pc' = [pc EXCEPT ![t] = "idle"]
    /\ failed' = failed \cup {item[t]}
    /\ item' = Returned(item, t)
    /\ timeout' = Returned(timeout, t)
    /\ end_time' = Returned(end_time, t)
    /\ blockedAt' = Returned(blockedAt, t)
    /\ remaining' = Returned(remaining, t)
    /\ UNCHANGED <<pipeVars, max_size, queue, not_empty, not_full, now, got,
                   tpc, role, calls, putLog, getLog, ahead, getTimeouts,
                   errors, ret, wait_until>>

\* line 34 with the while test false, lines 42-44, the end of the with block
PutAppend(t) ==
    /\ pc[t] = "put_check"
    /\ lock = t
    /\ ~PutMustWait(t)
    /\ queue' = append(queue, item[t])
    /\ not_empty' = NotifyNotEmpty[2]
    /\ pc' = [NotifyNotEmpty[1] EXCEPT ![t] = "idle"]
    /\ lock' = WithExit(t, FALSE)
    /\ putLog' = Append(putLog, item[t])
    /\ item' = Returned(item, t)
    /\ timeout' = Returned(timeout, t)
    /\ end_time' = Returned(end_time, t)
    /\ blockedAt' = Returned(blockedAt, t)
    /\ remaining' = Returned(remaining, t)
    /\ UNCHANGED <<pipeVars, max_size, not_full, now, got, tpc, role, calls,
                   getLog, ahead, failed, getTimeouts, errors, ret, wait_until>>

\* the timed wait of line 41 expires: waiter.acquire(True, timeout) fails;
\* the waiter stays in _waiters until the lock is re-acquired
PutWaitExpire(t) ==
    /\ pc[t] = "put_wait"
    /\ wait_until[t] # None
    /\ now >= wait_until[t]
    /\ pc' = [pc EXCEPT ![t] = "put_woken"]
    /\ UNCHANGED <<queueVars, pipeVars, histVars, now, item, timeout,
                   end_time, got, tpc, role, calls, ret, remaining,
                   wait_until>>

\* wait() returns: the lock is re-acquired, the waiter leaves _waiters,
\* and the loop goes back to the while test
PutReacquire(t) ==
    /\ pc[t] = "put_woken"
    /\ lock = NoThread
    /\ lock' = t
    /\ not_full' = RemoveWaiter(not_full, t)
    /\ pc' = [pc EXCEPT ![t] = "put_check"]
    /\ wait_until' = Returned(wait_until, t)
    /\ UNCHANGED <<pipeVars, histVars, max_size, queue, not_empty, now, item,
                   timeout, end_time, got, tpc, role, calls, ret, remaining>>

\* lines 51-53 and 58: the queue is empty and the deadline is not reached
GetWait(t) ==
    /\ pc[t] = "get_check"
    /\ lock = t
    /\ GetMustWait(t)
    /\ timeout[t] = None \/ ~Expired(t)
    /\ not_empty' = Append(not_empty, t)
    /\ lock' = NoThread
    /\ pc' = [pc EXCEPT ![t] = "get_wait"]
    /\ blockedAt' = [blockedAt EXCEPT ![t] =
                        IF @ = None THEN Len(putLog) ELSE @]
    /\ remaining' = [remaining EXCEPT ![t] = NewRemaining(t)]
    /\ wait_until' = [wait_until EXCEPT ![t] = WaitUntil(t)]
    /\ UNCHANGED <<pipeVars, max_size, queue, not_full, now, item, timeout,
                   end_time, got, tpc, role, calls, putLog, getLog, ahead,
                   failed, getTimeouts, errors, ret>>

\* lines 55-57: the queue is empty and remaining <= 0
GetTimeout(t) ==
    /\ pc[t] = "get_check"
    /\ lock = t
    /\ GetMustWait(t)
    /\ timeout[t] # None
    /\ Expired(t)
    /\ lock' = WithExit(t, TRUE)
    /\ pc' = [pc EXCEPT ![t] = "idle"]
    /\ getTimeouts' = getTimeouts + 1
    /\ timeout' = Returned(timeout, t)
    /\ end_time' = Returned(end_time, t)
    /\ blockedAt' = Returned(blockedAt, t)
    /\ remaining' = Returned(remaining, t)
    /\ UNCHANGED <<pipeVars, max_size, queue, not_empty, not_full, now, item,
                   got, tpc, role, calls, putLog, getLog, ahead, failed,
                   errors, ret, wait_until>>

\* line 51 with the while test false, lines 59-61, the end of the with block
\* (an IndexError of popleft() would leave the with block as well)
GetTake(t) ==
    /\ pc[t] = "get_check"
    /\ lock = t
    /\ ~GetMustWait(t)
    /\ queue' = popleft(queue)[2]
    /\ got' = [got EXCEPT ![t] = Bind(t, popleft(queue)[1])]
    /\ not_full' = NotifyNotFull[2]
    /\ pc' = [NotifyNotFull[1] EXCEPT ![t] = "idle"]
    /\ lock' = WithExit(t, queue = <<>>)
    /\ errors' = IF queue = <<>> THEN errors \cup {"IndexError"} ELSE errors
    /\ getLog' = IF queue = <<>> THEN getLog
                 ELSE Append(getLog, popleft(queue)[1])
    /\ timeout' = Returned(timeout, t)
    /\ end_time' = Returned(end_time, t)
    /\ blockedAt' = Returned(blockedAt, t)
    /\ remaining' = Returned(remaining, t)
    /\ UNCHANGED <<pipeVars, max_size, not_empty, now, item, tpc, role, calls,
                   putLog, ahead, failed, getTimeouts, ret, wait_until>>

\* the timed wait of line 58 expires
GetWaitExpire(t) ==
    /\ pc[t] = "get_wait"
    /\ wait_until[t] # None
    /\ now >= wait_until[t]
    /\ pc' = [pc EXCEPT ![t] = "get_woken"]
    /\ UNCHANGED <<queueVars, pipeVars, histVars, now, item, timeout,
                   end_time, got, tpc, role, calls, ret, remaining,
                   wait_until>>

\* wait() returns: the lock is re-acquired, the waiter leaves _waiters,
\* and the loop goes back to the while test
GetReacquire(t) ==
    /\ pc[t] = "get_woken"
    /\ lock = NoThread
    /\ lock' = t
    /\ not_empty' = RemoveWaiter(not_empty, t)
    /\ pc' = [pc EXCEPT ![t] = "get_check"]
    /\ wait_until' = Returned(wait_until, t)
    /\ UNCHANGED <<pipeVars, histVars, max_size, queue, not_full, now, item,
                   timeout, end_time, got, tpc, role, calls, ret, remaining>>

\* one step of thread t inside put or get
QueueStep(t) ==
    \/ PutWait(t) \/ PutTimeout(t)
    \/ PutAppend(t) \/ PutWaitExpire(t) \/ PutReacquire(t)
    \/ GetWait(t) \/ GetTimeout(t)
    \/ GetTake(t) \/ GetWaitExpire(t) \/ GetReacquire(t)

\* a timed call that has not ended yet and whose deadline is ahead, or a
\* timed wait() that has not given up yet
PendingDeadline ==
    \E t \in DOMAIN pc :
        \/ pc[t] # "idle" /\ end_time[t] # None /\ now < end_time[t]
        \/ wait_until[t] # None /\ now < wait_until[t]

\* the monotonic clock advances; only timed calls read it, so only the
\* ticks that bring a pending deadline nearer are modelled
Tick ==
    /\ PendingDeadline
    /\ now' = now + 1
    /\ UNCHANGED <<queueVars, callVars, pipeVars, histVars, tpc, role, calls>>

\* ------------------------------------- size, capacity, is_empty, is_full
\* Python's True and False as return values (bool is a subclass of int)
True  == 1
False == 0
Bool(b) == IF b THEN True ELSE False

\* line 65: len(self._queue)
size == Len(queue)

\* the free space in place of the bound: self.max_size - len(self._queue)
capacity_free == max_size - Len(queue)

\* line 68: self.max_size
capacity == max_size

\* line 72: len(self._queue) == 0
is_empty == Len(queue) = 0

\* `>` in place of the `>=` of line 76
is_full_strict == Len(queue) > max_size

\* line 76: len(self._queue) >= self.max_size
is_full == Len(queue) >= max_size

\* the methods that read the deque
ReadOps == {"size", "is_empty", "is_full"}

\* the return expression of method op, evaluated in the current state
ReadValue(op) ==
    CASE op = "size"     -> size
      [] op = "is_empty" -> Bool(is_empty)
      [] op = "is_full"  -> Bool(is_full)

\* the method body entered without `with self._lock:`
ReadAcquire_unlocked(t) == lock' = lock

\* `with self._lock:` (lines 64, 71, 75): entered when the lock is free
ReadAcquire(t) == lock = NoThread /\ lock' = t

\* size(), is_empty() or is_full() is called by an idle thread: it enters
\* its with block and evaluates the expression of its return statement
\* (lines 64-65, 71-72, 75-76)
ReadEnter(t, op) ==
    /\ pc[t] = "idle"
    /\ ReadAcquire(t)
    /\ pc' = [pc EXCEPT ![t] = op]
    /\ ret' = [ret EXCEPT ![t] = ReadValue(op)]
    /\ UNCHANGED <<histVars, max_size, queue, not_empty, not_full, now, item,
                   timeout, end_time, got, remaining, wait_until>>

\* capacity() is called by an idle thread and evaluates self.max_size
\* (lines 67-68); no lock is taken
CapacityEnter(t) ==
    /\ pc[t] = "idle"
    /\ pc' = [pc EXCEPT ![t] = "capacity"]
    /\ ret' = [ret EXCEPT ![t] = capacity]
    /\ UNCHANGED <<queueVars, histVars, now, item, timeout, end_time, got,
                   remaining, wait_until>>

\* the with block of size(), is_empty() or is_full() ends, which releases
\* the lock, and the value is returned; capacity() returns
ReadReturn(t) ==
    /\ pc[t] \in ReadOps \cup {"capacity"}
    /\ lock' = IF pc[t] = "capacity" THEN lock ELSE WithExit(t, FALSE)
    /\ pc' = [pc EXCEPT ![t] = "idle"]
    /\ ret' = Returned(ret, t)
    /\ UNCHANGED <<pipeVars, histVars, max_size, queue, not_empty, not_full,
                   now, item, timeout, end_time, got, tpc, role, calls,
                   remaining, wait_until>>

\* ------------------------------------------------- client threads of Spec
\* a client thread calls put(x, timeout=to) and enters `with
\* self._not_full:` (lines 30-32); x is a fresh object, numbered by the call
\* that passes it
CallPut(t, to) ==
    /\ tpc[t] = "client"
    /\ role[t] = "put"
    /\ calls < MaxCalls
    /\ calls' = calls + 1
    /\ PutEnter(t, calls + 1, to)
    /\ UNCHANGED <<pipeVars, tpc, role>>

\* a client thread calls get(timeout=to) and enters `with self._not_empty:`
\* (lines 47-49)
CallGet(t, to) ==
    /\ tpc[t] = "client"
    /\ role[t] = "get"
    /\ calls < MaxCalls
    /\ calls' = calls + 1
    /\ GetEnter(t, to)
    /\ UNCHANGED <<pipeVars, tpc, role>>

\* BlockingQueue(max_size=c).__post_init__ for c > 0, queue state only
QueueInit(c) ==
    /\ max_size = c
    /\ queue = <<>>
    /\ lock = NoThread
    /\ not_empty = <<>>
    /\ not_full = <<>>

\* no thread is inside a call
CallInit(T) ==
    /\ pc = [t \in T |-> "idle"]
    /\ item = [t \in T |-> None]
    /\ timeout = [t \in T |-> None]
    /\ end_time = [t \in T |-> None]
    /\ remaining = [t \in T |-> None]
    /\ wait_until = [t \in T |-> None]
    /\ got = [t \in T |-> None]
    /\ ret = [t \in T |-> None]
    /\ blockedAt = [t \in T |-> None]
    /\ ahead = {}
    /\ putLog = <<>>
    /\ getLog = <<>>
    /\ failed = {}
    /\ getTimeouts = 0
    /\ errors = {}
    /\ now = 0
    /\ calls = 0

Init ==
    /\ \E c \in 1..MaxCap : QueueInit(c)
    /\ CallInit(Threads)
    /\ tpc = [t \in Threads |-> "client"]
    /\ \E n \in 0..Cardinality(Threads) :
          role = [t \in Threads |-> IF t <= n THEN "put" ELSE "get"]
    /\ source = <<>>
    /\ raiseAt = None
    /\ pos = 0
    /\ raised = FALSE
    /\ destination = <<>>
    /\ mpc = "none"
    /\ result = <<>>

\* ------------------------------------------------------------ run_pipeline
\* all lists over S of length at most n
SeqsUpTo(S, n) == UNION {[1..k -> S] : k \in 0..n}

\* a None test in place of the identity test: `item is None` also ends the
\* loop
IsSentinel_orNone(x) == x = SENTINEL \/ x = None

\* `item is self.sentinel`
IsSentinel(x) == x = SENTINEL

\* destination.insert(0, value) in place of append
Collect_front(dst, v) == <<v>> \o dst

\* self.destination.append(value)
Collect(dst, v) == Append(dst, v)

\* the sentinel put written after the for loop, without try/finally: an
\* exception of the source skips it
SentinelOnExit_normalOnly(r) == ~r

\* the try/finally of Producer.run: the sentinel is put on every way out of
\* the for loop, whether the source was exhausted or raised (r)
SentinelOnExit(r) == TRUE

\* producer.start()
StartProducer ==
    /\ mpc = "start_producer"
    /\ mpc' = "start_consumer"
    /\ tpc' = [tpc EXCEPT ![PRODUCER] = "iter"]
    /\ UNCHANGED <<queueVars, callVars, histVars, now, role, calls, source,
                   raiseAt, pos, raised, destination, result>>

\* consumer.start()
StartConsumer ==
    /\ mpc = "start_consumer"
    /\ mpc' = "join_producer"
    /\ tpc' = [tpc EXCEPT ![CONSUMER] = "loop"]
    /\ UNCHANGED <<queueVars, callVars, histVars, now, role, calls, source,
                   raiseAt, pos, raised, destination, result>>

\* Producer.run line 23-24: the source yields its next item, put(item)
ProducerPut ==
    /\ tpc[PRODUCER] = "iter"
    /\ pos < Len(source)
    /\ pos # raiseAt
    /\ PutEnter(PRODUCER, source[pos + 1], None)
    /\ pos' = pos + 1
    /\ UNCHANGED <<tpc, role, calls, source, raiseAt, raised, destination,
                   mpc, result>>

\* Producer.run line 23, 25-26: the source is exhausted or raises; the
\* finally clause puts the sentinel
ProducerFinally ==
    /\ tpc[PRODUCER] = "iter"
    /\ pos = Len(source) \/ pos = raiseAt
    /\ raised' = (pos = raiseAt)
    /\ IF SentinelOnExit(pos = raiseAt)
       THEN /\ tpc' = [tpc EXCEPT ![PRODUCER] = "finally"]
            /\ PutEnter(PRODUCER, SENTINEL, None)
       ELSE /\ tpc' = [tpc EXCEPT ![PRODUCER] = "done"]
            /\ pc[PRODUCER] = "idle"
            /\ UNCHANGED <<queueVars, callVars, histVars, now>>
    /\ UNCHANGED <<role, calls, source, raiseAt, pos, destination, mpc, result>>

\* Producer.run ends (with the source's exception, if it raised) once the
\* put of the finally clause has returned
ProducerDone ==
    /\ tpc[PRODUCER] = "finally"
    /\ pc[PRODUCER] = "idle"
    /\ tpc' = [tpc EXCEPT ![PRODUCER] = "done"]
    /\ UNCHANGED <<queueVars, callVars, pipeVars, histVars, now, role, calls>>

\* Consumer.run line 41: item = self.queue.get()
ConsumerGet ==
    /\ tpc[CONSUMER] = "loop"
    /\ GetEnter(CONSUMER, None)
    /\ tpc' = [tpc EXCEPT ![CONSUMER] = "got"]
    /\ UNCHANGED <<pipeVars, role, calls>>

\* Consumer.run lines 43-44: the item is the sentinel, break
ConsumerBreak ==
    /\ tpc[CONSUMER] = "got"
    /\ pc[CONSUMER] = "idle"
    /\ IsSentinel(got[CONSUMER])
    /\ tpc' = [tpc EXCEPT ![CONSUMER] = "done"]
    /\ UNCHANGED <<queueVars, callVars, pipeVars, histVars, now, role, calls>>

\* Consumer.run lines 43, 46-47: the item is appended to destination
ConsumerAppend ==
    /\ tpc[CONSUMER] = "got"
    /\ pc[CONSUMER] = "idle"
    /\ ~IsSentinel(got[CONSUMER])
    /\ destination' = Collect(destination, got[CONSUMER])
    /\ tpc' = [tpc EXCEPT ![CONSUMER] = "loop"]
    /\ UNCHANGED <<queueVars, callVars, histVars, now, role, calls, source,
                   raiseAt, pos, raised, mpc, result>>

\* producer.join()
JoinProducer ==
    /\ mpc = "join_producer"
    /\ tpc[PRODUCER] = "done"
    /\ mpc' = "join_consumer"
    /\ UNCHANGED <<queueVars, callVars, histVars, now, tpc, role, calls,
                   source, raiseAt, pos, raised, destination, result>>

\* consumer.join(); return destination
JoinConsumer ==
    /\ mpc = "join_consumer"
    /\ tpc[CONSUMER] = "done"
    /\ mpc' = "returned"
    /\ result' = destination
    /\ UNCHANGED <<queueVars, callVars, histVars, now, tpc, role, calls,
                   source, raiseAt, pos, raised, destination>>

\* run_pipeline(source, queue_size) up to producer.start(): a fresh queue,
\* an empty destination, both threads constructed
PipeInit ==
    /\ \E c \in 1..MaxCap : QueueInit(c)
    /\ CallInit(PipeThreads)
    /\ tpc = [t \in PipeThreads |-> "unstarted"]
    /\ role = [t \in PipeThreads |-> "none"]
    /\ source \in SeqsUpTo(Values, MaxSrc)
    /\ raiseAt \in {None} \cup (0..Len(source))
    /\ pos = 0
    /\ raised = FALSE
    /\ destination = <<>>
    /\ mpc = "start_producer"
    /\ result = <<>>

\* one step of the Producer thread
ProducerStep ==
    \/ ProducerPut \/ ProducerFinally \/ ProducerDone
    \/ PutWait(PRODUCER) \/ PutAppend(PRODUCER) \/ PutReacquire(PRODUCER)

\* one step of the Consumer thread
ConsumerStep ==
    \/ ConsumerGet \/ ConsumerBreak \/ ConsumerAppend
    \/ GetWait(CONSUMER) \/ GetTake(CONSUMER) \/ GetReacquire(CONSUMER)

\* one step of the thread that called run_pipeline
MainStep ==
    \/ StartProducer \/ StartConsumer \/ JoinProducer \/ JoinConsumer

PipeNext == ProducerStep \/ ConsumerStep \/ MainStep

PipeSpec == PipeInit /\ [][PipeNext]_vars

\* a preemptive scheduler: a thread that can run is eventually run
FairPipeSpec ==
    /\ PipeSpec
    /\ WF_vars(ProducerStep)
    /\ WF_vars(ConsumerStep)
    /\ WF_vars(MainStep)


Next ==
    \/ \E t \in Threads : QueueStep(t)
    \/ \E t \in Threads, to \in Timeouts : CallPut(t, to)
    \/ \E t \in Threads, to \in Timeouts : CallGet(t, to)
    \/ Tick

Spec == Init /\ [][Next]_vars

\* a preemptive scheduler and a running clock; clients need not call
FairSpec ==
    /\ Spec
    /\ \A t \in Threads : WF_vars(QueueStep(t))
    /\ WF_vars(Tick)

\* ---------------------------------------------------- longer timed calls
\* timeout arguments that leave time between a call's entry and its
\* deadline
LongTimeouts == {None, 0, 2}

TimedNext ==
    \/ \E t \in Threads : QueueStep(t)
    \/ \E t \in Threads, to \in LongTimeouts : CallPut(t, to)
    \/ \E t \in Threads, to \in LongTimeouts : CallGet(t, to)
    \/ Tick

TimedSpec == Init /\ [][TimedNext]_vars

\* ------------------------------------------- client threads of ReadSpec
\* a client thread calls size(), is_empty() or is_full()
CallRead(t, op) ==
    /\ tpc[t] = "client"
    /\ role[t] = "read"
    /\ ReadEnter(t, op)
    /\ UNCHANGED <<pipeVars, tpc, role, calls>>

\* a client thread calls capacity()
CallCapacity(t) ==
    /\ tpc[t] = "client"
    /\ role[t] = "read"
    /\ CapacityEnter(t)
    /\ UNCHANGED <<pipeVars, tpc, role, calls>>

\* a fresh queue shared by n threads that put, m threads that get and at
\* least one thread that calls the reading methods
ReadInit ==
    /\ \E c \in 1..MaxCap : QueueInit(c)
    /\ CallInit(Threads)
    /\ tpc = [t \in Threads |-> "client"]
    /\ \E n \in 0..2, m \in 0..2 :
          /\ n + m < Cardinality(Threads)
          /\ role = [t \in Threads |-> IF t <= n THEN "put"
                                       ELSE IF t <= n + m THEN "get"
                                       ELSE "read"]
    /\ source = <<>>
    /\ raiseAt = None
    /\ pos = 0
    /\ raised = FALSE
    /\ destination = <<>>
    /\ mpc = "none"
    /\ result = <<>>

ReadNext ==
    \/ Next
    \/ \E t \in Threads, op \in ReadOps : CallRead(t, op)
    \/ \E t \in Threads : CallCapacity(t)
    \/ \E t \in Threads : ReadReturn(t)

ReadSpec == ReadInit /\ [][ReadNext]_vars

\* a preemptive scheduler and a running clock; clients need not call
FairReadSpec ==
    /\ ReadSpec
    /\ \A t \in Threads : WF_vars(QueueStep(t))
    /\ \A t \in Threads : WF_vars(ReadReturn(t))
    /\ WF_vars(Tick)

\* ------------------------------------------------------------ construction
\* `self.max_size < 0`: zero is accepted
InvalidSize_negative(c) == c < 0

\* line 19: self.max_size <= 0
InvalidSize(c) == c <= 0

\* __post_init__, lines 18-27: ValueError for an invalid max_size, before
\* any other attribute is assigned; otherwise the deque, the lock and the
\* two conditions are created
PostInit ==
    /\ mpc = "post_init"
    /\ IF InvalidSize(max_size)
       THEN /\ mpc' = "raised"
            /\ errors' = errors \cup {"ValueError"}
            /\ UNCHANGED <<queue, lock, not_empty, not_full>>
       ELSE /\ mpc' = "built"
            /\ queue' = <<>>
            /\ lock' = NoThread
            /\ not_empty' = <<>>
            /\ not_full' = <<>>
            /\ errors' = errors
    /\ UNCHANGED <<callVars, max_size, now, tpc, role, calls, source, raiseAt,
                   pos, raised, destination, result, putLog, getLog,
                   blockedAt, ahead, failed, getTimeouts>>

\* BlockingQueue(max_size=c) has been called: the generated __init__ has
\* stored max_size and is about to call __post_init__; the threads that
\* will use the queue are those of ReadSpec
NewInit ==
    /\ max_size \in MinSize..MaxCap
    /\ queue = NoAttr
    /\ lock = NoAttr
    /\ not_empty = NoAttr
    /\ not_full = NoAttr
    /\ CallInit(Threads)
    /\ tpc = [t \in Threads |-> "client"]
    /\ \E n \in 0..2, m \in 0..2 :
          /\ n + m < Cardinality(Threads)
          /\ role = [t \in Threads |-> IF t <= n THEN "put"
                                       ELSE IF t <= n + m THEN "get"
                                       ELSE "read"]
    /\ source = <<>>
    /\ raiseAt = None
    /\ pos = 0
    /\ raised = FALSE
    /\ destination = <<>>
    /\ mpc = "post_init"
    /\ result = <<>>

\* the queue is used only once the constructor has returned it
NewNext ==
    \/ PostInit
    \/ mpc = "built" /\ ReadNext

NewSpec == NewInit /\ [][NewNext]_vars

\* a preemptive scheduler and a running clock; clients need not call
FairNewSpec ==
    /\ NewSpec
    /\ WF_vars(PostInit)
    /\ \A t \in Threads : WF_vars(mpc = "built" /\ QueueStep(t))
    /\ \A t \in Threads : WF_vars(mpc = "built" /\ ReadReturn(t))
    /\ WF_vars(mpc = "built" /\ Tick)

\* ------------------------------------------------------------ properties
\* the elements of a list
Range(q) == {q[i] : i \in 1..Len(q)}

\* the threads of client role r
Role(r) == {t \in DOMAIN role : role[t] = r}

\* C1: under any interleaving of timed and untimed put and get calls the
\* number of stored items stays between 0 and max_size (> 0): no put appends
\* to a full queue, also after being woken and overtaken, and no get removes
\* from an empty queue (popleft never raises IndexError).
C1_SizeWithinCapacity ==
    /\ max_size > 0
    /\ 0 <= Len(queue)
    /\ Len(queue) <= max_size
    /\ "IndexError" \notin errors

\* a put that waited on a full queue has been woken, holds the lock again,
\* and finds the queue full once more: another put filled the slot first
C1_Witness ==
    \E t \in DOMAIN pc :
        /\ pc[t] = "put_check"
        /\ blockedAt[t] # None
        /\ lock = t
        /\ Len(queue) = max_size

\* C2: FIFO without loss or duplication: the values returned by get, in
\* removal order, followed by what is stored, are exactly the items appended
\* by put, in append order; so the i-th get returns the i-th put's item, and
\* an item whose put timed out is never returned.
C2_Fifo ==
    /\ putLog = getLog \o queue
    /\ \A i \in 1..Len(getLog) : getLog[i] = putLog[i]
    /\ failed \cap Range(getLog) = {}

\* two items have been put and both have been returned
C2_Witness == Len(getLog) = 2 /\ queue = <<>>

\* C5 (state part): the item of a put that raised TimeoutError is neither
\* stored nor was it ever appended, and a thread outside a call is in no
\* waiter list.
C5_FailedNeverStored ==
    /\ failed \cap (Range(queue) \cup Range(putLog)) = {}
    /\ \A t \in DOMAIN pc :
           pc[t] = "idle" => t \notin Range(not_full) \cup Range(not_empty)

\* C5 (step part): the step in which put or get raises TimeoutError leaves
\* the stored items and both waiter lists as they were and frees the lock;
\* and the stored items change only in the step in which a call returns
\* normally, so no earlier step of a call that times out has touched them.
C5_TimeoutStep ==
    /\ (failed' # failed \/ getTimeouts' # getTimeouts)
           => /\ queue' = queue
              /\ putLog' = putLog
              /\ getLog' = getLog
              /\ not_full' = not_full
              /\ not_empty' = not_empty
              /\ lock' = NoThread
    /\ queue' # queue
           => /\ failed' = failed
              /\ getTimeouts' = getTimeouts
              /\ \E t \in DOMAIN pc :
                     /\ pc[t] \in {"put_check", "get_check"}
                     /\ pc'[t] = "idle"
                     /\ lock = t

\* C5: a timed put or get that ends with TimeoutError leaves the queue as if
\* the call had not been made: the stored items are untouched, the item of a
\* timed-out put is not enqueued then or later, and the lock is released.
C5_TimeoutLeavesQueue == []C5_FailedNeverStored /\ [][C5_TimeoutStep]_vars

\* a put has timed out on a full queue and a get has timed out on an empty
\* one, and the lock is free for the next caller
C5_Witness == failed # {} /\ getTimeouts > 0 /\ lock = NoThread

\* the position of v in a list that holds it
Index(q, v) == CHOOSE i \in 1..Len(q) : q[i] = v

\* thread t is inside an untimed call of the given kind that has waited
Blocked(t, kind) ==
    /\ pc[t] \in {kind \o "_wait", kind \o "_woken", kind \o "_check"}
    /\ timeout[t] = None
    /\ blockedAt[t] # None

\* C6 (step part): when an untimed get that found the queue empty returns,
\* some put has appended since it began to wait; with a single getter the
\* value returned is the item of the first put that ran after that moment.
C6_ReturnStep ==
    \A t \in DOMAIN pc :
        (Blocked(t, "get") /\ pc'[t] = "idle" /\ getLog' # getLog)
            => /\ Len(putLog) > blockedAt[t]
               /\ Cardinality(Role("get")) = 1
                      => getLog'[Len(getLog')] = putLog[blockedAt[t] + 1]

\* C6 (progress part): with a single getter, a blocked untimed get returns
\* once a put has run.
C6_Progress ==
    \A t \in Threads :
        (/\ Cardinality(Role("get")) = 1
         /\ Blocked(t, "get")
         /\ Len(putLog) > blockedAt[t]) ~> (pc[t] = "idle")

\* C6: an untimed get on an empty queue does not return before a put has
\* appended an item; with a single getter, once a concurrent put(x) has run
\* the blocked get eventually returns exactly x.
C6_BlockedGet == [][C6_ReturnStep]_vars /\ C6_Progress

\* the single getter waited on the empty queue, a put has run since, and the
\* getter holds the lock again with the item at the head of the queue
C6_Witness ==
    \E t \in DOMAIN pc :
        /\ Cardinality(Role("get")) = 1
        /\ Blocked(t, "get")
        /\ pc[t] = "get_check"
        /\ lock = t
        /\ Len(putLog) = blockedAt[t] + 1
        /\ queue = <<putLog[blockedAt[t] + 1]>>

\* C7 (step part): when an untimed put that found the queue full completes,
\* some get has removed an item since it began to wait.
C7_CompleteStep ==
    \A t \in DOMAIN pc :
        (Blocked(t, "put") /\ pc'[t] = "idle" /\ putLog' # putLog)
            => Len(getLog) > blockedAt[t]

\* C7 (state part): until a get has removed an item the blocked put's item
\* is not stored; and an item that was stored when put(x) began to wait is
\* delivered before x.
C7_Order ==
    /\ \A t \in DOMAIN pc :
           (Blocked(t, "put") /\ Len(getLog) = blockedAt[t])
               => item[t] \notin Range(queue)
    /\ \A p \in ahead :
           LET all == getLog \o queue IN
           p[2] \in Range(all)
               => p[1] \in Range(all) /\ Index(all, p[1]) < Index(all, p[2])

\* C7 as stated (progress part): a blocked untimed put completes once a get
\* has freed a slot, whoever else is putting.
C7_ProgressAnyPutters ==
    \A t \in Threads :
        (Blocked(t, "put") /\ Len(getLog) > blockedAt[t]) ~> (pc[t] = "idle")

\* C7 as stated: an untimed put on a full queue does not complete before a
\* get has removed an item; once a concurrent get frees a slot the blocked
\* put eventually completes, and its item is delivered after every item that
\* was already stored.
C7_Original ==
    [][C7_CompleteStep]_vars /\ []C7_Order /\ C7_ProgressAnyPutters

\* C7 as amended (progress part): with a single putter, a blocked untimed
\* put completes once a get has freed a slot.
C7_ProgressSinglePutter ==
    \A t \in Threads :
        (/\ Cardinality(Role("put")) = 1
         /\ Blocked(t, "put")
         /\ Len(getLog) > blockedAt[t]) ~> (pc[t] = "idle")

\* C7 as amended: an untimed put on a full queue does not complete before a
\* get has removed an item; with a single putter, once a concurrent get
\* frees a slot the blocked put eventually completes; its item is delivered
\* after every item that was already stored.
C7_BlockedPut ==
    [][C7_CompleteStep]_vars /\ []C7_Order /\ C7_ProgressSinglePutter

\* the put that waited on the full queue has completed after a get: its item
\* is stored behind an item that was there when it began to wait
C7_Witness ==
    \E p \in ahead :
        /\ Cardinality(Role("put")) = 1
        /\ p[1] \in Range(queue)
        /\ p[2] \in Range(queue)
        /\ Len(getLog) > 0

\* a list without the sentinel
NoSentinel(q) == SENTINEL \notin Range(q)

\* the items the source yields before it is exhausted or raises
Yielded ==
    SubSeq(source, 1, IF raiseAt = None THEN Len(source) ELSE raiseAt)

\* the items Producer.run has taken from the source so far
Taken == SubSeq(source, 1, pos)

\* C3: for a source without the sentinel that is iterated to its end, and
\* any queue_size >= 1, the list run_pipeline returns equals the source,
\* element for element (the empty list for the empty source).
C3_RoundTrip ==
    (mpc = "returned" /\ raiseAt = None /\ NoSentinel(source))
        => result = source

\* run_pipeline has returned a source longer than the queue, unchanged
C3_Witness ==
    /\ mpc = "returned"
    /\ raiseAt = None
    /\ NoSentinel(source)
    /\ Len(source) > max_size
    /\ result = source

\* C4 (state part): producer and consumer are never both waiting, and a
\* thread still waiting has its wake-up condition false (the put that stored
\* an item, the get that freed a slot, has woken it).
C4_WaitersJustified ==
    /\ ~(pc[PRODUCER] = "put_wait" /\ pc[CONSUMER] = "get_wait")
    /\ pc[PRODUCER] = "put_wait" => Len(queue) >= max_size
    /\ pc[CONSUMER] = "get_wait" => queue = <<>>

\* C4 as stated: for every source and every queue_size >= 1, under fair
\* scheduling, both threads finish and run_pipeline returns; the two
\* threads are never blocked on each other, and no thread waits with its
\* wake-up condition true.
C4_Original == <>(mpc = "returned") /\ []C4_WaitersJustified

\* C4 as amended: the same, for every source that yields no sentinel.
C4_NoDeadlock ==
    /\ NoSentinel(Yielded) ~> (mpc = "returned")
    /\ []C4_WaitersJustified

\* run_pipeline has returned although the producer had to wait for space
\* in a queue shorter than the source
C4_Witness ==
    /\ mpc = "returned"
    /\ NoSentinel(Yielded)
    /\ Len(Yielded) > max_size
    /\ ahead # {}

\* C8: the producer's successful puts are the items taken from the source,
\* in source order, then one sentinel put by the finally clause, whether
\* the source was exhausted or raised; the thread is finished only after
\* that put has returned.
C8_SentinelLast ==
    /\ tpc[PRODUCER] = "unstarted" => putLog = <<>>
    /\ tpc[PRODUCER] = "iter"
           => putLog = IF pc[PRODUCER] = "idle" THEN Taken
                       ELSE SubSeq(source, 1, pos - 1)
    /\ tpc[PRODUCER] = "finally"
           => putLog = IF pc[PRODUCER] = "idle"
                       THEN Taken \o <<SENTINEL>> ELSE Taken
    /\ tpc[PRODUCER] = "done"
           => /\ putLog = Taken \o <<SENTINEL>>
              /\ pc[PRODUCER] = "idle"
    /\ tpc[PRODUCER] \in {"finally", "done"}
           => Taken = Yielded /\ raised = (raiseAt # None)

\* the producer has finished after its source raised midway
C8_Witness ==
    /\ tpc[PRODUCER] = "done"
    /\ raised
    /\ 0 < pos
    /\ pos < Len(source)

\* C9: destination holds the dequeued values in dequeue order, never the
\* sentinel; a finished consumer has dequeued exactly the enqueued items up
\* to and including the first sentinel, and destination is what preceded
\* that sentinel (for the empty source: destination empty, queue empty).
C9_StopsAtFirstSentinel ==
    /\ NoSentinel(destination)
    /\ getLog = SubSeq(putLog, 1, Len(getLog))
    /\ Len(destination) <= Len(getLog)
    /\ destination = SubSeq(getLog, 1, Len(destination))
    /\ tpc[CONSUMER] = "done"
           => /\ getLog # <<>>
              /\ getLog[Len(getLog)] = SENTINEL
              /\ destination = SubSeq(getLog, 1, Len(getLog) - 1)
              /\ NoSentinel(Taken) => queue = <<>>
              /\ source = <<>> => destination = <<>> /\ queue = <<>>

\* the consumer has finished at a sentinel that came from the source, with
\* items collected before it and items left behind it
C9_Witness ==
    /\ tpc[CONSUMER] = "done"
    /\ destination # <<>>
    /\ queue # <<>>

\* C10 (state part): a producer whose source raised is finished only with
\* the error and after the yielded items and then the sentinel were put.
C10_ProducerOnError ==
    (tpc[PRODUCER] = "done" /\ raiseAt # None)
        => raised /\ putLog = Yielded \o <<SENTINEL>>

\* both threads have finished and run_pipeline has returned the yielded
\* items
C10_Finished ==
    /\ tpc[PRODUCER] = "done"
    /\ tpc[CONSUMER] = "done"
    /\ destination = Yielded
    /\ mpc = "returned"

\* C10 as stated: whenever the source raises after yielding k items, the
\* producer puts the sentinel after them and finishes with the error, and
\* the consumer eventually finishes with destination equal to those items.
C10_Original ==
    /\ []C10_ProducerOnError
    /\ (raiseAt # None) ~> C10_Finished

\* C10 as amended: the same, when the k yielded items hold no sentinel.
C10_SurvivesSourceError ==
    /\ []C10_ProducerOnError
    /\ (raiseAt # None /\ NoSentinel(Yielded)) ~> C10_Finished

\* the pipeline has ended after the source raised midway
C10_Witness ==
    /\ C10_Finished
    /\ raised
    /\ 0 < raiseAt
    /\ raiseAt < Len(source)
    /\ NoSentinel(Yielded)


\* C11 (step part): the consumer leaves its loop only in a step in which the
\* value it holds is the sentinel object; a None it holds is appended to
\* destination and the loop goes on.
C11_BreakStep ==
    /\ (tpc[CONSUMER] # "done" /\ tpc'[CONSUMER] = "done")
           => /\ got[CONSUMER] = SENTINEL
              /\ got[CONSUMER] # None
              /\ destination' = destination
    /\ (tpc[CONSUMER] = "got" /\ pc[CONSUMER] = "idle"
            /\ got[CONSUMER] = None /\ tpc'[CONSUMER] # "got")
           => /\ tpc'[CONSUMER] = "loop"
              /\ destination' = Append(destination, None)

\* C11 as stated (result part): for any source that yields None somewhere,
\* run_pipeline returns the yielded items unchanged.
C11_ReturnsAnySource ==
    (mpc = "returned" /\ None \in Range(Yielded)) => result = Yielded

\* C11 as stated: a None payload is never treated as the sentinel: the
\* consumer terminates only on the sentinel object, keeps consuming past
\* each None, and for any source containing None run_pipeline returns the
\* source unchanged with the None values in place.
C11_Original == [][C11_BreakStep]_vars /\ []C11_ReturnsAnySource

\* C11 as amended (result part): the same, for a source that yields None
\* somewhere and the sentinel object nowhere.
C11_ReturnsSentinelFree ==
    (mpc = "returned" /\ None \in Range(Yielded) /\ NoSentinel(Yielded))
        => result = Yielded

\* C11 as amended: a None payload is never treated as the sentinel: the
\* consumer terminates only on the sentinel object, keeps consuming past
\* each None, and for any source that contains None and not the sentinel
\* object run_pipeline returns the source unchanged, None values in place.
C11_NoneIsPayload == [][C11_BreakStep]_vars /\ []C11_ReturnsSentinelFree

\* run_pipeline has returned a source with None first and an item after it
C11_Witness ==
    /\ mpc = "returned"
    /\ raiseAt = None
    /\ Len(source) >= 2
    /\ source[1] = None
    /\ NoSentinel(source)
    /\ result = source


\* the threads between the entry and the exit of a with block of the queue
\* that are not inside wait()
InCritical ==
    {t \in DOMAIN pc : pc[t] \in {"put_check", "get_check"} \cup ReadOps}

\* the threads inside wait() on not_full or not_empty
InWait ==
    {t \in DOMAIN pc :
        pc[t] \in {"put_wait", "put_woken", "get_wait", "get_woken"}}

\* C12 (state part): at most one thread is inside the critical section, it
\* is the owner of the lock, a thread inside wait() does not own the lock,
\* and a thread reading the length in size, is_empty or is_full owns it: the
\* value it read is the value of the stored items now.
C12_OneHolder ==
    /\ Cardinality(InCritical) <= 1
    /\ \A t \in DOMAIN pc : t \in InCritical <=> lock = t
    /\ \A t \in InWait : lock # t
    /\ \A t \in DOMAIN pc :
           pc[t] \in ReadOps => lock = t /\ ret[t] = ReadValue(pc[t])

\* C12 (step part): every step that appends to or removes from the stored
\* items is taken by the thread that owns the lock, from its critical
\* section, and no other thread is in that section.
C12_MutateStep ==
    queue' # queue
        => \E t \in DOMAIN pc :
               /\ lock = t
               /\ pc[t] \in {"put_check", "get_check"}
               /\ InCritical = {t}

\* C12: mutual exclusion around check-wait-mutate: never two holders of the
\* lock, a waiter on not_full or not_empty does not hold it, and every
\* append, popleft and length read happens under the lock.
C12_MutualExclusion == []C12_OneHolder /\ [][C12_MutateStep]_vars

\* a thread reads the length under the lock while a woken putter and
\* another caller are kept out
C12_Witness ==
    \E t, u \in DOMAIN pc :
        /\ pc[t] \in ReadOps
        /\ lock = t
        /\ pc[u] = "put_woken"
        /\ queue # <<>>


\* C13 (step part): the constructor's check ends in ValueError exactly for
\* max_size <= 0, and then assigns nothing; for max_size > 0 it returns a
\* queue with an empty deque and a free lock.
C13_PostInitStep ==
    (mpc = "post_init" /\ mpc' # "post_init")
        => /\ max_size' = max_size
           /\ max_size <= 0
                  => /\ mpc' = "raised"
                     /\ "ValueError" \in errors'
                     /\ queue' = NoAttr
           /\ max_size > 0
                  => /\ mpc' = "built"
                     /\ errors' = {}
                     /\ queue' = <<>>
                     /\ lock' = NoThread

\* C13 (state part): after a failed construction there is no queue: no
\* attribute was assigned and no thread is or was inside a call on it; a
\* built queue has max_size > 0 and no ValueError was raised.
C13_NoQueueOnError ==
    /\ mpc = "raised"
           => /\ max_size <= 0
              /\ <<queue, lock, not_empty, not_full>>
                     = <<NoAttr, NoAttr, NoAttr, NoAttr>>
              /\ \A t \in DOMAIN pc : pc[t] = "idle"
              /\ calls = 0
    /\ mpc = "built" => max_size > 0 /\ "ValueError" \notin errors

\* C13: BlockingQueue(max_size) with max_size <= 0 always fails with
\* ValueError and yields no usable queue; with max_size > 0 it succeeds.
C13_InvalidSizeRejected == [][C13_PostInitStep]_vars /\ []C13_NoQueueOnError

\* the constructor has raised for max_size = 0
C13_Witness ==
    mpc = "raised" /\ max_size = 0 /\ "ValueError" \in errors


\* a built queue on which no put or get has been called yet
Fresh == mpc = "built" /\ calls = 0

\* C14 (fresh part): on a fresh queue of any max_size > 0 the four methods
\* give 0, True, False and max_size, as state functions and as the values
\* of the calls in progress.
C14_FreshState ==
    Fresh => /\ max_size > 0
             /\ size = 0
             /\ is_empty
             /\ ~is_full
             /\ capacity = max_size
             /\ \A t \in DOMAIN pc :
                    /\ pc[t] = "size" => ret[t] = 0
                    /\ pc[t] = "is_empty" => ret[t] = True
                    /\ pc[t] = "is_full" => ret[t] = False
                    /\ pc[t] = "capacity" => ret[t] = max_size

\* C14 (later part): every capacity() call, in whatever state, returns
\* max_size
C14_CapacityReturned ==
    \A t \in DOMAIN pc : pc[t] = "capacity" => ret[t] = max_size

\* C14 (step part): max_size is the value handed to the constructor: no
\* step changes it
C14_CapacityFixed == max_size' = max_size

\* C14: for every C > 0 a freshly constructed queue has size() == 0,
\* is_empty() true, is_full() false, capacity() == C; capacity() returns C
\* in every later state, whatever puts and gets have run.
C14_InitialState ==
    /\ []C14_FreshState
    /\ []C14_CapacityReturned
    /\ [][C14_CapacityFixed]_vars

\* capacity() is about to return max_size = 2 on a queue that is full after
\* puts and a get have run
C14_Witness ==
    \E t \in DOMAIN pc :
        /\ mpc = "built"
        /\ pc[t] = "capacity"
        /\ ret[t] = 2
        /\ Len(queue) = 2
        /\ getLog # <<>>

\* is_full() is about to return False on a fresh queue
C14_FreshRead ==
    \E t \in DOMAIN pc : Fresh /\ pc[t] = "is_full" /\ ret[t] = False


\* the threads that a step takes from asleep in wait() to released
WokenIn(kind) ==
    {t \in DOMAIN pc : pc[t] = kind \o "_wait" /\ pc'[t] = kind \o "_woken"}

\* the threads asleep in the wait() of a put or of a get
Asleep(kind) == {t \in DOMAIN pc : pc[t] = kind \o "_wait"}

\* C15 as stated (step part): a successful put wakes exactly one of the
\* gets asleep in wait() when there is one and none otherwise, and no put;
\* a successful get wakes exactly one of the puts asleep in wait() when
\* there is one and none otherwise, and no get.
C15_OneSleeperStep ==
    /\ putLog' # putLog
           => /\ Cardinality(WokenIn("get"))
                     = IF Asleep("get") # {} THEN 1 ELSE 0
              /\ WokenIn("put") = {}
    /\ getLog' # getLog
           => /\ Cardinality(WokenIn("put"))
                     = IF Asleep("put") # {} THEN 1 ELSE 0
              /\ WokenIn("get") = {}

\* C15 as stated: each successful put wakes exactly one waiting get if any
\* exists, each successful get exactly one waiting put; a put never wakes a
\* put, a get never a get.
C15_Original == [][C15_OneSleeperStep]_vars

\* C15 as amended (step part): a successful put releases exactly the
\* oldest entry of not_empty's waiters when there is one, and nothing
\* otherwise; if that thread is asleep it is the one thread woken, if its
\* timed wait has already expired no thread is woken; not_full and the puts
\* in wait() are left alone. Symmetrically for a successful get.
C15_OneWaiterStep ==
    /\ putLog' # putLog
           => /\ not_empty' = IF not_empty = <<>> THEN <<>>
                              ELSE Tail(not_empty)
              /\ WokenIn("get")
                     = IF not_empty # <<>> /\ pc[Head(not_empty)] = "get_wait"
                       THEN {Head(not_empty)} ELSE {}
              /\ not_full' = not_full
              /\ WokenIn("put") = {}
    /\ getLog' # getLog
           => /\ not_full' = IF not_full = <<>> THEN <<>>
                             ELSE Tail(not_full)
              /\ WokenIn("put")
                     = IF not_full # <<>> /\ pc[Head(not_full)] = "put_wait"
                       THEN {Head(not_full)} ELSE {}
              /\ not_empty' = not_empty
              /\ WokenIn("get") = {}

\* C15 as amended (state part): the waiters of not_empty are gets inside
\* wait(), those of not_full are puts inside wait(), each at most once, and
\* every thread asleep in wait() is among them.
C15_WaitersRegistered ==
    /\ \A i \in 1..Len(not_empty) :
           pc[not_empty[i]] \in {"get_wait", "get_woken"}
    /\ \A i \in 1..Len(not_full) :
           pc[not_full[i]] \in {"put_wait", "put_woken"}
    /\ Cardinality(Range(not_empty)) = Len(not_empty)
    /\ Cardinality(Range(not_full)) = Len(not_full)
    /\ Asleep("get") \subseteq Range(not_empty)
    /\ Asleep("put") \subseteq Range(not_full)

\* C15 as amended: each successful put releases exactly one waiter of
\* not_empty if there is one, the oldest, and each successful get exactly
\* one waiter of not_full; the waiter released may be one whose timed wait
\* has already expired, and then no sleeping thread is woken; a put never
\* wakes a waiting put, a get never a waiting get.
C15_WakesOne == [][C15_OneWaiterStep]_vars /\ []C15_WaitersRegistered

\* an untimed get has been woken by a put while another get stays asleep
C15_Witness ==
    \E t, u \in DOMAIN pc :
        /\ pc[t] = "get_woken"
        /\ timeout[t] = None
        /\ pc[u] = "get_wait"
        /\ not_empty = <<u>>
        /\ queue # <<>>


\* thread t is inside a timed put or get
Timed(t) == pc[t] # "idle" /\ timeout[t] # None

\* C16 (step part): the deadline is entry time + timeout and is not
\* changed while the call runs; a wait is started only before the deadline
\* and only for deadline minus current time; at or past the deadline, with
\* its condition still false, the call's next step raises TimeoutError.
C16_DeadlineStep ==
    \A t \in DOMAIN pc :
        /\ (pc[t] = "idle" /\ pc'[t] # "idle" /\ timeout'[t] # None)
               => end_time'[t] = now + timeout'[t]
        /\ (Timed(t) /\ pc'[t] # "idle")
               => end_time'[t] = end_time[t] /\ timeout'[t] = timeout[t]
        /\ (Timed(t) /\ pc[t] \in {"put_check", "get_check"}
                /\ pc'[t] \in {"put_wait", "get_wait"})
               => /\ now < end_time[t]
                  /\ remaining'[t] = end_time[t] - now
                  /\ wait_until'[t] = end_time[t]
        /\ (Timed(t) /\ pc[t] = "put_check" /\ IsFull /\ now >= end_time[t]
                /\ pc'[t] # pc[t])
               => pc'[t] = "idle" /\ item[t] \in failed' /\ queue' = queue
        /\ (Timed(t) /\ pc[t] = "get_check" /\ IsEmpty /\ now >= end_time[t]
                /\ pc'[t] # pc[t])
               => /\ pc'[t] = "idle"
                  /\ getTimeouts' = getTimeouts + 1
                  /\ queue' = queue

\* C16 (state part): a timed call asleep in wait(), whichever wake-ups it
\* has had, sleeps until its original deadline at the latest.
C16_WaitWithinDeadline ==
    \A t \in DOMAIN pc :
        (Timed(t) /\ pc[t] \in {"put_wait", "get_wait"})
            => /\ wait_until[t] = end_time[t]
               /\ 0 < remaining[t]
               /\ remaining[t] <= timeout[t]

\* C16: a timed put or get fixes its deadline once, at entry; after a
\* wake-up with its condition still false it waits again only for deadline
\* minus current time and never starts a wait at or past the deadline (it
\* raises TimeoutError), so wake-ups without progress do not extend the
\* call beyond its deadline.
C16_DeadlineFixedOnce == [][C16_DeadlineStep]_vars /\ []C16_WaitWithinDeadline

\* a put with timeout 2, the only put that ever waited, was woken by a get,
\* found the queue full again and now waits for the 1 that is left
C16_Witness ==
    \E t \in DOMAIN pc :
        /\ pc[t] = "put_wait"
        /\ timeout[t] = 2
        /\ remaining[t] = 1
        /\ Len(getLog) > blockedAt[t]
        /\ \A p \in ahead : p[2] = item[t]


\* the positions inside size, is_empty, is_full and capacity
ReadPcs == ReadOps \cup {"capacity"}

\* C17 (step part): a step of a thread entering, inside or leaving one of
\* the four reading methods changes neither the stored items nor max_size
\* nor the waiters of either condition, wakes nobody, and takes the thread
\* to no wait().
C17_FrameStep ==
    \A t \in DOMAIN pc :
        ((pc[t] \in ReadPcs \/ pc'[t] \in ReadPcs) /\ pc'[t] # pc[t])
            => /\ queue' = queue
               /\ max_size' = max_size
               /\ not_empty' = not_empty
               /\ not_full' = not_full
               /\ putLog' = putLog /\ getLog' = getLog
               /\ pc'[t] \in ReadPcs \cup {"idle"}
               /\ \A u \in DOMAIN pc \ {t} : pc'[u] = pc[u]

\* C17 (state part): a thread in a reading method is in no waiter list and
\* can return at once; a reading call can enter whenever the lock is free;
\* is_empty() holds exactly when size() == 0, is_full() exactly when
\* size() == capacity(), never both, for the methods as functions of the
\* state and for the values of the calls in progress.
C17_Consistent ==
    /\ \A t \in DOMAIN pc :
           pc[t] \in ReadPcs
               => /\ t \notin Range(not_empty) \cup Range(not_full)
                  /\ ENABLED ReadReturn(t)
    /\ \A t \in Role("read"), op \in ReadOps :
           (pc[t] = "idle" /\ lock = NoThread) => ENABLED CallRead(t, op)
    /\ \A t \in Role("read") : pc[t] = "idle" => ENABLED CallCapacity(t)
    /\ is_empty <=> size = 0
    /\ is_full <=> size = capacity
    /\ ~(is_empty /\ is_full)
    /\ \A t \in DOMAIN pc :
           /\ pc[t] = "is_empty" => (ret[t] = True <=> size = 0)
           /\ pc[t] = "is_full" => (ret[t] = True <=> size = capacity)
           /\ pc[t] = "size" => ret[t] = size
           /\ pc[t] = "capacity" => ret[t] = capacity

\* C17 (progress part): the lock is always eventually free, and a thread
\* inside a reading method returns.
C17_Returns ==
    /\ (lock # NoThread) ~> (lock = NoThread)
    /\ \A t \in Threads : (pc[t] \in ReadPcs) ~> (pc[t] = "idle")

\* C17: size, capacity, is_empty and is_full change nothing, never wait on
\* a condition and complete once the lock is free, which it always
\* eventually is; is_empty() <=> size() == 0, is_full() <=> size() ==
\* capacity(), never both.
C17_ReadsOnly ==
    /\ [][C17_FrameStep]_vars
    /\ []C17_Consistent
    /\ C17_Returns

\* is_full() is about to return True while a put sleeps in wait() on the
\* full queue
C17_Witness ==
    \E t, u \in DOMAIN pc :
        /\ pc[t] = "is_full"
        /\ ret[t] = True
        /\ lock = t
        /\ pc[u] = "put_wait"
        /\ not_full = <<u>>


\* C18 (step part): the step in which put raises TimeoutError starts with
\* the queue full, the one in which get raises with the queue empty; a
\* call at its while test with space (an item) available goes on to append
\* (remove) whatever its timeout and the clock say.
C18_RaiseStep ==
    /\ failed' # failed => Len(queue) >= max_size /\ queue' = queue
    /\ getTimeouts' # getTimeouts => queue = <<>> /\ queue' = queue
    /\ \A t \in DOMAIN pc :
           /\ (pc[t] = "put_check" /\ Len(queue) < max_size
                   /\ pc'[t] # pc[t])
                  => /\ pc'[t] = "idle"
                     /\ queue' = Append(queue, item[t])
                     /\ failed' = failed
           /\ (pc[t] = "get_check" /\ queue # <<>> /\ pc'[t] # pc[t])
                  => /\ pc'[t] = "idle"
                     /\ queue' = Tail(queue)
                     /\ getLog' = Append(getLog, Head(queue))
                     /\ getTimeouts' = getTimeouts

\* C18: TimeoutError comes from put only with the queue full and from get
\* only with the queue empty, at the moment of raising: availability is
\* tested before the deadline, so a timed call that finds space (an item)
\* succeeds also with timeout 0 or after its deadline, including when it
\* wakes after the deadline and finds its condition true.
C18_TimeoutOnlyWhenBlocked == [][C18_RaiseStep]_vars

\* a timed get that slept past its deadline holds the lock again, after
\* the deadline, with an item in the queue
C18_Witness ==
    \E t \in DOMAIN pc :
        /\ pc[t] = "get_check"
        /\ lock = t
        /\ timeout[t] # None
        /\ blockedAt[t] # None
        /\ now >= end_time[t]
        /\ queue # <<>>

\* a put with timeout 0 holds the lock on a queue with free space
C18_ZeroTimeout ==
    \E t \in DOMAIN pc :
        pc[t] = "put_check" /\ timeout[t] = 0 /\ Len(queue) < max_size


\* the threads inside a call of the given kind that are awake: at the
\* while test, or released from wait() and about to re-acquire the lock
Awake(kind) ==
    {t \in DOMAIN pc : pc[t] \in {kind \o "_check", kind \o "_woken"}}

\* the threads inside an untimed call of the given kind
Untimed(kind) ==
    {t \in DOMAIN pc :
        /\ pc[t] \in {kind \o "_check", kind \o "_wait", kind \o "_woken"}
        /\ timeout[t] = None}

\* the calls of the given kind that have succeeded or are still running
Counted(kind, log) ==
    Len(log) + Cardinality({t \in DOMAIN pc :
        pc[t] \in {kind \o "_check", kind \o "_wait", kind \o "_woken"}})

\* C19 (state part): while a get sleeps in wait(), every stored item has an
\* awake get on its way to the while test; while a put sleeps, every free
\* slot has an awake put on its way: the wake-up for it was not lost.
C19_NoneLost ==
    /\ Asleep("get") # {} => Len(queue) <= Cardinality(Awake("get"))
    /\ Asleep("put") # {}
           => max_size - Len(queue) <= Cardinality(Awake("put"))

\* C19 (progress part 1): again and again no get sleeps in wait() or the
\* queue is empty, and no put sleeps or the queue is full; so no thread
\* sleeps forever in get while the queue stays non-empty, or in put while
\* it stays non-full.
C19_NoSleeperStuck ==
    /\ []<>(Asleep("get") = {} \/ queue = <<>>)
    /\ []<>(Asleep("put") = {} \/ Len(queue) >= max_size)

\* C19 (progress part 2): if in the end as many puts have succeeded or
\* block as gets have succeeded or block, no untimed call is left running.
C19_BalancedCompletes ==
    <>[](Counted("put", putLog) = Counted("get", getLog))
        => <>[](Untimed("put") = {} /\ Untimed("get") = {})

\* C19: no wake-up is lost with several putters and getters, timed calls
\* that time out and callers that overtake a woken waiter: balanced puts
\* and gets all complete under fair scheduling, and no thread waits forever
\* in get with the queue non-empty or in put with the queue non-full.
C19_NoLostWakeup ==
    /\ []C19_NoneLost
    /\ C19_NoSleeperStuck
    /\ C19_BalancedCompletes

\* an untimed get sleeps while an item is stored: the put's notify() went
\* to a get whose timed wait had expired, which is on its way to the item
C19_Witness ==
    \E t, u \in DOMAIN pc :
        /\ pc[t] = "get_wait"
        /\ timeout[t] = None
        /\ queue # <<>>
        /\ pc[u] = "get_woken"
        /\ timeout[u] # None
        /\ now >= end_time[u]
        /\ not_empty = <<t>>


\* a list with every sentinel dropped
DropSentinel(q) == SelectSeq(q, LAMBDA x : x # SENTINEL)

\* the item the consumer has dequeued and not yet appended or dropped
InHand ==
    IF tpc[CONSUMER] = "got" /\ pc[CONSUMER] = "idle"
    THEN <<got[CONSUMER]>> ELSE <<>>

\* the prefix of the source the producer has enqueued so far
Enqueued == SubSeq(source, 1, IF Len(putLog) < pos THEN Len(putLog) ELSE pos)

\* p is a prefix of q
IsPrefix(p, q) == Len(p) <= Len(q) /\ p = SubSeq(q, 1, Len(p))

\* C20 (conservation part): destination, then the item in the consumer's
\* hand, then the stored items, sentinel dropped, are the source items
\* enqueued so far; the queue holds the sentinel only as its last element.
C20_Conserved ==
    /\ destination \o DropSentinel(InHand) \o DropSentinel(queue) = Enqueued
    /\ \A i \in 1..Len(queue) : queue[i] = SENTINEL => i = Len(queue)

\* C20 (prefix part): destination is a prefix of the source.
C20_Prefix == IsPrefix(destination, source)

\* C20 (step part): destination changes only by the consumer thread
\* appending the item it holds.
C20_GrowStep ==
    destination' # destination
        => /\ tpc[CONSUMER] = "got" /\ tpc'[CONSUMER] = "loop"
           /\ destination' = Append(destination, got[CONSUMER])
           /\ \A t \in DOMAIN tpc \ {CONSUMER} : tpc'[t] = tpc[t]

\* C20 as stated: in every state of a run_pipeline execution, for any
\* source, destination followed by the queued items (sentinel dropped) is
\* the enqueued prefix of the source up to the item in the consumer's hand;
\* destination is a prefix of the source and grows only by the consumer's
\* appends; the sentinel is in the queue only as its last element.
C20_Original == []C20_Conserved /\ []C20_Prefix /\ [][C20_GrowStep]_vars

\* C20 as amended: the same, the conservation part and the place of the
\* sentinel for a source that yields no sentinel.
C20_PipelineInvariant ==
    /\ [](NoSentinel(Yielded) => C20_Conserved)
    /\ []C20_Prefix
    /\ [][C20_GrowStep]_vars

\* one item is in destination, one in the consumer's hand, one in the
\* queue with the sentinel behind it
C20_Witness ==
    /\ NoSentinel(Yielded)
    /\ Len(destination) = 1
    /\ InHand # <<>>
    /\ Len(queue) = 2
    /\ queue[2] = SENTINEL

====
